---- MODULE Spec2Model ----
(***************************************************************************)
(* The fake-DNS Holder of app/dns/fakedns/fake.go: a CIDR address pool, an *)
(* allocation cursor (nextIP) and a bounded LRU cache domain -> address.   *)
(*                                                                         *)
(* Addresses are byte sequences, as in Go.  A byte holds ByteBits bits     *)
(* (8 in Go) so that the whole address space can be enumerated; an IPv4    *)
(* address is IPv4len bytes.  big.Int values are unbounded integers.       *)
(* Domains are the numbers 1..MaxDomains; 0 stands for the empty string.   *)
(***************************************************************************)
EXTENDS Integers, Sequences, FiniteSets, TLC

\* Bounds of the model.
ByteBits == 1
MaxLru == 2
MaxDomains == 3
NumWorkers == 2

\* net.IPv4len: the length in bytes of an IPv4 address.
IPv4len == 4

ByteBase == 2 ^ ByteBits
AddrBits == IPv4len * ByteBits
Domains == 1 .. MaxDomains
Workers == 1 .. NumWorkers
NoDomain == 0

(***************************************************************************)
(* math/big: Int.Bytes gives the big-endian bytes of the value with no     *)
(* leading zero byte (the empty slice for 0); Int.SetBytes reads them back.*)
(***************************************************************************)
RECURSIVE Bytes(_)
Bytes(n) ==
    IF n = 0 THEN << >> ELSE Append(Bytes(n \div ByteBase), n % ByteBase)

RECURSIVE SetBytes(_)
SetBytes(b) ==
    IF Len(b) = 0 THEN 0
    ELSE SetBytes(SubSeq(b, 1, Len(b) - 1)) * ByteBase + b[Len(b)]

\* IP.To4 of an IPv4 address: always IPv4len bytes, leading zero bytes kept.
RECURSIVE FixedBytes(_, _)
FixedBytes(n, len) ==
    IF len = 0 THEN << >>
    ELSE Append(FixedBytes(n \div ByteBase, len - 1), n % ByteBase)

To4(n) == FixedBytes(n, IPv4len)

(***************************************************************************)
(* net.Address values: an IPv4 address, a domain address, or the nil       *)
(* interface.  net.IPAddress makes an address of a byte slice of length    *)
(* IPv4len and gives nil (after logging "invalid IP format") for a slice   *)
(* of another length (IPv6 pools are outside the model).                   *)
(***************************************************************************)
NilAddress == [family |-> "nil", ip |-> << >>]
DomainAddress == [family |-> "domain", ip |-> << >>]

IPAddress(b) ==
    IF Len(b) = IPv4len THEN [family |-> "ipv4", ip |-> b] ELSE NilAddress

IsIP(a) == a.family = "ipv4"

(***************************************************************************)
(* net.IPNet: the masked base address and the prefix length.  Contains     *)
(* answers false for a slice whose length is not that of the network's     *)
(* address, and otherwise compares byte by byte under the mask.            *)
(***************************************************************************)
NilRange == [IP |-> << >>, ones |-> -1]

\* The number of mask bits that fall in byte i (1-based) of a mask of `ones` bits.
MaskBitsIn(i, ones) ==
    LET k == ones - (i - 1) * ByteBits
    IN  IF k < 0 THEN 0 ELSE IF k > ByteBits THEN ByteBits ELSE k

\* byte & mask[i]
AndMask(byte, i, ones) ==
    byte - (byte % (2 ^ (ByteBits - MaskBitsIn(i, ones))))

MaskIP(b, ones) == [i \in 1 .. Len(b) |-> AndMask(b[i], i, ones)]

Contains(r, b) ==
    /\ Len(b) = Len(r.IP)
    /\ \A i \in 1 .. Len(b) : AndMask(b[i], i, r.ones) = AndMask(r.IP[i], i, r.ones)

(***************************************************************************)
(* net.ParseCIDR.  A CIDR string is modelled by what it parses to: the     *)
(* address written in it (host bits kept) and the prefix length, or        *)
(* BadCidr for a string that does not parse.                               *)
(***************************************************************************)
BadCidr == [ip |-> << >>, ones |-> -1]

ParseCIDR(s) ==
    IF s = BadCidr
    THEN [err |-> TRUE, ipaddr |-> << >>, ipRange |-> NilRange]
    ELSE [err |-> FALSE, ipaddr |-> s.ip,
          ipRange |-> [IP |-> MaskIP(s.ip, s.ones), ones |-> s.ones]]

\* ipRange.Mask.Size(): the ones and the bits of the mask.
MaskSize(r) == [ones |-> r.ones, bits |-> Len(r.IP) * ByteBits]

(***************************************************************************)
(* math.Log2(float64(lruSize)) >= float64(rooms).  Log2 of a power of two  *)
(* is exact and Log2 is monotone, so for lruSize >= 1 the comparison       *)
(* holds exactly when halving lruSize `rooms` times leaves at least 1.     *)
(* Log2(0) is -Inf: the comparison is false.                               *)
(***************************************************************************)
RECURSIVE Log2AtLeast(_, _)
Log2AtLeast(n, rooms) ==
    IF n <= 0 THEN FALSE
    ELSE IF rooms <= 0 THEN TRUE
    ELSE Log2AtLeast(n \div 2, rooms - 1)

(***************************************************************************)
(* common/cache.Lru, by its contract: a bounded map with a recency order.  *)
(* list holds the live entries, most recently used first.  Get refreshes   *)
(* the entry it finds; GetKeyFromValue does not; Put of a new key on a     *)
(* full cache evicts the least recently used entry, both ways at once.     *)
(***************************************************************************)
NilCache == [capacity |-> -1, list |-> << >>]

NewLru(cap) == [capacity |-> cap, list |-> << >>]

KeyIndex(c, key) == {i \in 1 .. Len(c.list) : c.list[i].key = key}
ValueIndex(c, value) == {i \in 1 .. Len(c.list) : c.list[i].value = value}
Min(S) == CHOOSE x \in S : \A y \in S : x <= y

\* The list without its i-th entry.
Without(list, i) == SubSeq(list, 1, i - 1) \o SubSeq(list, i + 1, Len(list))

Get(c, key) ==
    IF KeyIndex(c, key) = {}
    THEN [ok |-> FALSE, value |-> NilAddress, cache |-> c]
    ELSE LET i == Min(KeyIndex(c, key))
         IN  [ok |-> TRUE, value |-> c.list[i].value,
              cache |-> [c EXCEPT !.list = << c.list[i] >> \o Without(c.list, i)]]

GetKeyFromValue(c, value) ==
    IF ValueIndex(c, value) = {}
    THEN [ok |-> FALSE, key |-> NoDomain, cache |-> c]
    ELSE [ok |-> TRUE, key |-> c.list[Min(ValueIndex(c, value))].key, cache |-> c]

Put(c, key, value) ==
    LET e == [key |-> key, value |-> value]
    IN  IF KeyIndex(c, key) # {}
        THEN [c EXCEPT !.list = << e >> \o Without(c.list, Min(KeyIndex(c, key)))]
        ELSE IF Len(c.list) >= c.capacity /\ Len(c.list) > 0
        THEN [c EXCEPT !.list = << e >> \o SubSeq(c.list, 1, Len(c.list) - 1)]
        ELSE [c EXCEPT !.list = << e >> \o c.list]

Keys(c) == {c.list[i].key : i \in 1 .. Len(c.list)}
Values(c) == {c.list[i].value : i \in 1 .. Len(c.list)}

(***************************************************************************)
(* The Holder.  nextIP is NilInt and the cache and range are their nil     *)
(* values until initialize succeeds and again after Close.                 *)
(***************************************************************************)
NilInt == 0 - 1

NewFakeDNSHolderConfigOnly(conf) ==
    [domainToIP |-> NilCache, nextIP |-> NilInt, ipRange |-> NilRange, config |-> conf]

IsNilHolder(h) ==
    h.domainToIP = NilCache /\ h.nextIP = NilInt /\ h.ipRange = NilRange

\* initialize with a fault: the range is stored before the capacity is checked.
initializeStoresEarly(h, ipPoolCidr, lruSize) ==
    LET p == ParseCIDR(ipPoolCidr)
        currentIP == SetBytes(p.ipaddr)
        rooms == MaskSize(p.ipRange).bits - MaskSize(p.ipRange).ones
    IN  IF p.err THEN [err |-> TRUE, holder |-> h]
        ELSE IF Log2AtLeast(lruSize, rooms)
        THEN [err |-> TRUE, holder |-> [h EXCEPT !.ipRange = p.ipRange]]
        ELSE [err |-> FALSE,
              holder |-> [h EXCEPT !.domainToIP = NewLru(lruSize),
                                   !.ipRange = p.ipRange,
                                   !.nextIP = currentIP]]

\* initialize with a fault: the cache is made one entry larger than lruSize.
initializeBiggerCache(h, ipPoolCidr, lruSize) ==
    LET p == ParseCIDR(ipPoolCidr)
        currentIP == SetBytes(p.ipaddr)
        rooms == MaskSize(p.ipRange).bits - MaskSize(p.ipRange).ones
    IN  IF p.err THEN [err |-> TRUE, holder |-> h]
        ELSE IF Log2AtLeast(lruSize, rooms) THEN [err |-> TRUE, holder |-> h]
        ELSE [err |-> FALSE,
              holder |-> [h EXCEPT !.domainToIP = NewLru(lruSize + 1),
                                   !.ipRange = p.ipRange,
                                   !.nextIP = currentIP]]

\* initialize with a fault: the capacity check is > where the code has >=.
initializeOffByOne(h, ipPoolCidr, lruSize) ==
    LET p == ParseCIDR(ipPoolCidr)
        currentIP == SetBytes(p.ipaddr)
        rooms == MaskSize(p.ipRange).bits - MaskSize(p.ipRange).ones
    IN  IF p.err THEN [err |-> TRUE, holder |-> h]
        ELSE IF Log2AtLeast(lruSize, rooms + 1)
        THEN [err |-> TRUE, holder |-> h]
        ELSE [err |-> FALSE,
              holder |-> [h EXCEPT !.domainToIP = NewLru(lruSize),
                                   !.ipRange = p.ipRange,
                                   !.nextIP = currentIP]]

\* initialize with a fault: the cursor starts at the masked base of the range.
initializeAtBase(h, ipPoolCidr, lruSize) ==
    LET p == ParseCIDR(ipPoolCidr)
        currentIP == SetBytes(p.ipRange.IP)
        rooms == MaskSize(p.ipRange).bits - MaskSize(p.ipRange).ones
    IN  IF p.err THEN [err |-> TRUE, holder |-> h]
        ELSE IF Log2AtLeast(lruSize, rooms) THEN [err |-> TRUE, holder |-> h]
        ELSE [err |-> FALSE,
              holder |-> [h EXCEPT !.domainToIP = NewLru(lruSize),
                                   !.ipRange = p.ipRange,
                                   !.nextIP = currentIP]]

\* initialize with a fault: a holder that has a cache keeps it.
initializeKeepsCache(h, ipPoolCidr, lruSize) ==
    LET p == ParseCIDR(ipPoolCidr)
        currentIP == SetBytes(p.ipaddr)
        rooms == MaskSize(p.ipRange).bits - MaskSize(p.ipRange).ones
    IN  IF p.err THEN [err |-> TRUE, holder |-> h]
        ELSE IF Log2AtLeast(lruSize, rooms) THEN [err |-> TRUE, holder |-> h]
        ELSE [err |-> FALSE,
              holder |-> [h EXCEPT !.domainToIP = IF h.domainToIP = NilCache
                                                  THEN NewLru(lruSize)
                                                  ELSE h.domainToIP,
                                   !.ipRange = p.ipRange,
                                   !.nextIP = currentIP]]

initialize(h, ipPoolCidr, lruSize) ==
    LET p == ParseCIDR(ipPoolCidr)
        \* ipaddr.To4() is not nil for an IPv4 CIDR: the four bytes are read.
        currentIP == SetBytes(p.ipaddr)
        rooms == MaskSize(p.ipRange).bits - MaskSize(p.ipRange).ones
    IN  IF p.err THEN [err |-> TRUE, holder |-> h]
        ELSE IF Log2AtLeast(lruSize, rooms) THEN [err |-> TRUE, holder |-> h]
        ELSE [err |-> FALSE,
              holder |-> [h EXCEPT !.domainToIP = NewLru(lruSize),
                                   !.ipRange = p.ipRange,
                                   !.nextIP = currentIP]]

initializeFromConfig(h) == initialize(h, h.config.IpPool, h.config.LruSize)

CloseHolder(h) ==
    [h EXCEPT !.domainToIP = NilCache, !.nextIP = NilInt, !.ipRange = NilRange]

(***************************************************************************)
(* One pass of the allocation loop of GetFakeIPForDomain: the candidate    *)
(* made of the cursor, and the cursor advanced and wrapped.                *)
(***************************************************************************)
Candidate(nextIP) == IPAddress(Bytes(nextIP))

Wrap(r, added) ==
    IF ~Contains(r, Bytes(added)) THEN SetBytes(r.IP) ELSE added

Advance(r, nextIP) == Wrap(r, nextIP + 1)

(***************************************************************************)
(* The loop has no state but the cursor, which after one pass is one of    *)
(* the 2^rooms pool addresses; the cache does not change inside the loop.  *)
(* A loop that has not left after 2^rooms + 1 passes has repeated a cursor *)
(* value and never leaves: the call does not return.                       *)
(***************************************************************************)
PoolSize(r) == 2 ^ (MaskSize(r).bits - MaskSize(r).ones)

\* The loop with a fault: the reverse lookup is made of the address after the
\* candidate.
RECURSIVE AllocLoopChecksNext(_, _, _)
AllocLoopChecksNext(h, nextIP, n) ==
    LET ip == Candidate(nextIP)
        next == Advance(h.ipRange, nextIP)
        k == GetKeyFromValue(h.domainToIP, Candidate(next))
    IN  IF ~k.ok
        THEN [found |-> TRUE, ip |-> ip, nextIP |-> next, steps |-> n + 1,
              cache |-> k.cache]
        ELSE IF n + 1 > PoolSize(h.ipRange)
        THEN [found |-> FALSE, ip |-> ip, nextIP |-> next, steps |-> n + 1,
              cache |-> k.cache]
        ELSE AllocLoopChecksNext([h EXCEPT !.domainToIP = k.cache], next, n + 1)

RECURSIVE AllocLoop(_, _, _)
AllocLoop(h, nextIP, n) ==
    LET ip == Candidate(nextIP)
        next == Advance(h.ipRange, nextIP)
        k == GetKeyFromValue(h.domainToIP, ip)
    IN  IF ~k.ok
        THEN [found |-> TRUE, ip |-> ip, nextIP |-> next, steps |-> n + 1,
              cache |-> k.cache]
        ELSE IF n + 1 > PoolSize(h.ipRange)
        THEN [found |-> FALSE, ip |-> ip, nextIP |-> next, steps |-> n + 1,
              cache |-> k.cache]
        ELSE AllocLoop([h EXCEPT !.domainToIP = k.cache], next, n + 1)

\* GetFakeIPForDomain with a fault: a hit is answered without refreshing the entry.
GetFakeIPForDomainNoRefresh(h, domain) ==
    LET g == Get(h.domainToIP, domain)
        a == AllocLoop(h, h.nextIP, 0)
    IN  IF h.domainToIP = NilCache
        THEN [outcome |-> "panic", holder |-> h, ret |-> NilAddress, hit |-> FALSE, steps |-> 0]
        ELSE IF g.ok /\ g.value = NilAddress
        THEN [outcome |-> "panic", holder |-> h,
              ret |-> NilAddress, hit |-> TRUE, steps |-> 0]
        ELSE IF g.ok
        THEN [outcome |-> "ok", holder |-> h,
              ret |-> g.value, hit |-> TRUE, steps |-> 0]
        ELSE IF ~a.found
        THEN [outcome |-> "hang",
              holder |-> [h EXCEPT !.nextIP = a.nextIP, !.domainToIP = a.cache],
              ret |-> NilAddress, hit |-> FALSE, steps |-> a.steps]
        ELSE [outcome |-> "ok",
              holder |-> [h EXCEPT !.nextIP = a.nextIP,
                                   !.domainToIP = Put(a.cache, domain, a.ip)],
              ret |-> a.ip, hit |-> FALSE, steps |-> a.steps]

\* GetFakeIPForDomain with a fault: the first candidate is taken without the
\* reverse lookup.
GetFakeIPForDomainNoCheck(h, domain) ==
    LET g == Get(h.domainToIP, domain)
    IN  IF h.domainToIP = NilCache
        THEN [outcome |-> "panic", holder |-> h, ret |-> NilAddress, hit |-> FALSE, steps |-> 0]
        ELSE IF g.ok /\ g.value = NilAddress
        THEN [outcome |-> "panic", holder |-> [h EXCEPT !.domainToIP = g.cache],
              ret |-> NilAddress, hit |-> TRUE, steps |-> 0]
        ELSE IF g.ok
        THEN [outcome |-> "ok", holder |-> [h EXCEPT !.domainToIP = g.cache],
              ret |-> g.value, hit |-> TRUE, steps |-> 0]
        ELSE [outcome |-> "ok",
              holder |-> [h EXCEPT !.nextIP = Advance(h.ipRange, h.nextIP),
                                   !.domainToIP = Put(h.domainToIP, domain, Candidate(h.nextIP))],
              ret |-> Candidate(h.nextIP), hit |-> FALSE, steps |-> 1]

\* GetFakeIPForDomain with a fault: a holder without cache answers nil.
GetFakeIPForDomainNilSafe(h, domain) ==
    LET g == Get(h.domainToIP, domain)
        a == AllocLoop(h, h.nextIP, 0)
    IN  IF h.domainToIP = NilCache
        THEN [outcome |-> "ok", holder |-> h, ret |-> NilAddress, hit |-> FALSE, steps |-> 0]
        ELSE IF g.ok /\ g.value = NilAddress
        THEN [outcome |-> "panic", holder |-> [h EXCEPT !.domainToIP = g.cache],
              ret |-> NilAddress, hit |-> TRUE, steps |-> 0]
        ELSE IF g.ok
        THEN [outcome |-> "ok", holder |-> [h EXCEPT !.domainToIP = g.cache],
              ret |-> g.value, hit |-> TRUE, steps |-> 0]
        ELSE IF ~a.found
        THEN [outcome |-> "hang",
              holder |-> [h EXCEPT !.nextIP = a.nextIP, !.domainToIP = a.cache],
              ret |-> NilAddress, hit |-> FALSE, steps |-> a.steps]
        ELSE [outcome |-> "ok",
              holder |-> [h EXCEPT !.nextIP = a.nextIP,
                                   !.domainToIP = Put(a.cache, domain, a.ip)],
              ret |-> a.ip, hit |-> FALSE, steps |-> a.steps]

(***************************************************************************)
(* GetFakeIPForDomain as one call.  On a holder whose cache is nil the     *)
(* call of domainToIP.Get panics; a hit on an entry whose value is the nil *)
(* interface panics in the assertion v.(net.Address).                      *)
(***************************************************************************)
GetFakeIPForDomain(h, domain) ==
    LET g == Get(h.domainToIP, domain)
        a == AllocLoop(h, h.nextIP, 0)
    IN  IF h.domainToIP = NilCache
        THEN [outcome |-> "panic", holder |-> h, ret |-> NilAddress, hit |-> FALSE, steps |-> 0]
        ELSE IF g.ok /\ g.value = NilAddress
        THEN [outcome |-> "panic", holder |-> [h EXCEPT !.domainToIP = g.cache],
              ret |-> NilAddress, hit |-> TRUE, steps |-> 0]
        ELSE IF g.ok
        THEN [outcome |-> "ok", holder |-> [h EXCEPT !.domainToIP = g.cache],
              ret |-> g.value, hit |-> TRUE, steps |-> 0]
        ELSE IF ~a.found
        THEN [outcome |-> "hang",
              holder |-> [h EXCEPT !.nextIP = a.nextIP, !.domainToIP = a.cache],
              ret |-> NilAddress, hit |-> FALSE, steps |-> a.steps]
        ELSE [outcome |-> "ok",
              holder |-> [h EXCEPT !.nextIP = a.nextIP,
                                   !.domainToIP = Put(a.cache, domain, a.ip)],
              ret |-> a.ip, hit |-> FALSE, steps |-> a.steps]

\* GetDomainFromFakeDNS with a fault: the range is not checked.
GetDomainFromFakeDNSNoRange(h, ip) ==
    LET k == GetKeyFromValue(h.domainToIP, ip)
    IN  IF ip = NilAddress
        THEN [outcome |-> "panic", ret |-> NoDomain, consulted |-> FALSE, holder |-> h]
        ELSE IF ~IsIP(ip)
        THEN [outcome |-> "ok", ret |-> NoDomain, consulted |-> FALSE, holder |-> h]
        ELSE IF h.ipRange = NilRange
        THEN [outcome |-> "panic", ret |-> NoDomain, consulted |-> FALSE, holder |-> h]
        ELSE [outcome |-> "ok", ret |-> k.key, consulted |-> TRUE,
              holder |-> [h EXCEPT !.domainToIP = k.cache]]

\* GetDomainFromFakeDNS with a fault: the domain found is looked up forward
\* as well, which makes its mapping the most recently used.
GetDomainFromFakeDNSTouches(h, ip) ==
    LET k == GetKeyFromValue(h.domainToIP, ip)
    IN  IF ip = NilAddress
        THEN [outcome |-> "panic", ret |-> NoDomain, consulted |-> FALSE, holder |-> h]
        ELSE IF ~IsIP(ip)
        THEN [outcome |-> "ok", ret |-> NoDomain, consulted |-> FALSE, holder |-> h]
        ELSE IF h.ipRange = NilRange
        THEN [outcome |-> "panic", ret |-> NoDomain, consulted |-> FALSE, holder |-> h]
        ELSE IF ~Contains(h.ipRange, ip.ip)
        THEN [outcome |-> "ok", ret |-> NoDomain, consulted |-> FALSE, holder |-> h]
        ELSE IF h.domainToIP = NilCache
        THEN [outcome |-> "panic", ret |-> NoDomain, consulted |-> TRUE, holder |-> h]
        ELSE [outcome |-> "ok", ret |-> k.key, consulted |-> TRUE,
              holder |-> [h EXCEPT !.domainToIP = Get(k.cache, k.key).cache]]

(***************************************************************************)
(* GetDomainFromFakeDNS.  ip.Family() on the nil interface panics; for an  *)
(* IP address on a holder whose range is nil, ipRange.Contains panics, and *)
(* on one whose cache is nil, domainToIP.GetKeyFromValue panics.           *)
(***************************************************************************)
GetDomainFromFakeDNS(h, ip) ==
    LET k == GetKeyFromValue(h.domainToIP, ip)
    IN  IF ip = NilAddress
        THEN [outcome |-> "panic", ret |-> NoDomain, consulted |-> FALSE, holder |-> h]
        ELSE IF ~IsIP(ip)
        THEN [outcome |-> "ok", ret |-> NoDomain, consulted |-> FALSE, holder |-> h]
        ELSE IF h.ipRange = NilRange
        THEN [outcome |-> "panic", ret |-> NoDomain, consulted |-> FALSE, holder |-> h]
        ELSE IF ~Contains(h.ipRange, ip.ip)
        THEN [outcome |-> "ok", ret |-> NoDomain, consulted |-> FALSE, holder |-> h]
        ELSE IF h.domainToIP = NilCache
        THEN [outcome |-> "panic", ret |-> NoDomain, consulted |-> TRUE, holder |-> h]
        ELSE [outcome |-> "ok", ret |-> k.key, consulted |-> TRUE,
              holder |-> [h EXCEPT !.domainToIP = k.cache]]

(***************************************************************************)
(* The configurations a holder is constructed with.  The pools have        *)
(* 0..MaxRooms host bits, MaxRooms being the fewest that admit every       *)
(* capacity 1..MaxLru: the tightest pools, where the cursor wraps and      *)
(* meets live addresses soonest.  A pool is written with a first byte that *)
(* is not zero (HighBase), the same with a host bit set, or with a first   *)
(* byte that is zero (LowBase), with and without a host bit set; BadCidr   *)
(* is a string that does not parse.                                        *)
(* The capacities are 1..MaxLru and, for each pool, the number of its      *)
(* addresses.  (LruSize is unsigned; capacity 0, on which the contract of  *)
(* the cache is silent, is left out.)                                      *)
(***************************************************************************)
MaxRooms == CHOOSE r \in 0 .. MaxLru : 2 ^ r > MaxLru /\ \A q \in 0 .. (r - 1) : 2 ^ q <= MaxLru

HighBase == 2 ^ (AddrBits - 1)
LowBase == 2 ^ MaxRooms

Cidrs ==
    {[ip |-> To4(a), ones |-> AddrBits - r] :
        a \in {HighBase, HighBase + 1, LowBase, LowBase + 1}, r \in 0 .. MaxRooms}

Configs ==
    {[IpPool |-> c, LruSize |-> n] : c \in {BadCidr}, n \in 1 .. MaxLru}
      \cup UNION {{[IpPool |-> c, LruSize |-> n] :
                     n \in (1 .. MaxLru) \cup {2 ^ (AddrBits - c.ones)}} : c \in Cidrs}

VARIABLES
    holder,       \* the Holder's fields
    fault,        \* "none", or how the calling goroutine ended: "panic", "hang"
    last,         \* the last call made and what it returned
    issued,       \* per domain, the address last returned for it and not evicted since
    accessOrder,  \* the live domains, most recent forward access first
    phase,        \* the Holder's state: "Uninitialized", "Active" or "Closed"
    freed,        \* the addresses of evicted mappings, not returned again since
    pc,           \* per worker, its place in GetFakeIPForDomain
    local         \* per worker, the locals of its call

vars == << holder, fault, last, issued, accessOrder, phase, freed, pc, local >>

NoCall ==
    [op |-> "none", domain |-> NoDomain, addr |-> NilAddress, name |-> NoDomain,
     hit |-> FALSE, steps |-> 0, evicted |-> {}, err |-> FALSE, consulted |-> FALSE]

\* In issued: no address has been returned for the domain, or its mapping is gone.
NotIssued == [family |-> "none", ip |-> << >>]

NoLocal == [domain |-> NoDomain, ip |-> NilAddress, tmp |-> NilInt, ret |-> NilAddress]

Active == holder.domainToIP # NilCache /\ holder.ipRange # NilRange /\ holder.nextIP # NilInt

Init ==
    /\ \E conf \in Configs : holder = NewFakeDNSHolderConfigOnly(conf)
    /\ fault = "none"
    /\ last = NoCall
    /\ issued = [d \in Domains |-> NotIssued]
    /\ accessOrder = << >>
    /\ phase = "Uninitialized"
    /\ freed = {}
    /\ pc = [w \in Workers |-> "idle"]
    /\ local = [w \in Workers |-> NoLocal]

\* Holder.Start
Start ==
    /\ fault = "none"
    /\ LET r == initializeFromConfig(holder)
       IN  /\ holder' = r.holder
           /\ last' = [NoCall EXCEPT !.op = "Start", !.err = r.err,
                                     !.evicted = Keys(holder.domainToIP)
                                                    \ Keys(r.holder.domainToIP)]
           /\ issued' = IF r.err THEN issued ELSE [d \in Domains |-> NotIssued]
           /\ accessOrder' = IF r.err THEN accessOrder ELSE << >>
           /\ phase' = IF r.err THEN phase ELSE "Active"
           /\ freed' = IF r.err THEN freed ELSE {}
    /\ UNCHANGED << fault, pc, local >>

\* Holder.Close
Close ==
    /\ fault = "none"
    /\ holder' = CloseHolder(holder)
    /\ last' = [NoCall EXCEPT !.op = "Close", !.evicted = Keys(holder.domainToIP)]
    /\ issued' = [d \in Domains |-> NotIssued]
    /\ accessOrder' = << >>
    /\ phase' = "Closed"
    /\ freed' = {}
    /\ UNCHANGED << fault, pc, local >>

\* A call of GetFakeIPForDomain by the only caller.
CallGetFakeIP(d) ==
    /\ fault = "none"
    /\ LET r == GetFakeIPForDomain(holder, d)
           gone == Keys(holder.domainToIP) \ Keys(r.holder.domainToIP)
       IN  /\ holder' = r.holder
           /\ fault' = IF r.outcome = "ok" THEN "none" ELSE r.outcome
           /\ last' = [NoCall EXCEPT !.op = "GetFakeIP", !.domain = d, !.addr = r.ret,
                                     !.hit = r.hit, !.steps = r.steps, !.evicted = gone]
           /\ issued' = [x \in Domains |->
                           IF x = d /\ r.outcome = "ok" THEN r.ret
                           ELSE IF x \in gone THEN NotIssued ELSE issued[x]]
           /\ accessOrder' =
                IF r.outcome = "ok"
                THEN << d >> \o SelectSeq(accessOrder, LAMBDA x : x # d /\ x \notin gone)
                ELSE accessOrder
           /\ freed' =
                IF r.outcome = "ok"
                THEN (freed \cup {issued[x] : x \in gone}) \ {r.ret}
                ELSE freed
    /\ UNCHANGED << phase, pc, local >>

\* The addresses GetDomainFromFakeDNS is asked about: every address of the
\* configured pool, the one below and the one above it, a domain address, and
\* whatever GetFakeIPForDomain has just returned.
ProbeAddresses ==
    LET c == holder.config.IpPool
        size == 2 ^ (AddrBits - c.ones)
        base == (SetBytes(c.ip) \div size) * size
        ints == IF c = BadCidr THEN {HighBase}
                ELSE {n \in (base - 1) .. (base + size) : n >= 0 /\ n < 2 ^ AddrBits}
    IN  {DomainAddress} \cup {IPAddress(To4(n)) : n \in ints}
          \cup (IF last.op = "GetFakeIP" THEN {last.addr} ELSE {})

\* A call of GetDomainFromFakeDNS by the only caller.
CallGetDomain(a) ==
    /\ fault = "none"
    /\ LET r == GetDomainFromFakeDNS(holder, a)
       IN  /\ holder' = r.holder
           /\ fault' = IF r.outcome = "ok" THEN "none" ELSE r.outcome
           /\ last' = [NoCall EXCEPT !.op = "GetDomain", !.addr = a, !.name = r.ret,
                                     !.consulted = r.consulted]
    /\ UNCHANGED << issued, accessOrder, phase, freed, pc, local >>

Next ==
    \/ Start
    \/ Close
    \/ \E d \in Domains : CallGetFakeIP(d)
    \/ \E a \in ProbeAddresses : CallGetDomain(a)

Spec == Init /\ [][Next]_vars

(***************************************************************************)
(* Concurrent callers.  The Holder has no lock: each worker runs the       *)
(* statements of GetFakeIPForDomain one at a time, interleaved with the    *)
(* others.  The cache's own operations are atomic (its contract).  The Add *)
(* of line 97 reads and writes the shared big.Int without synchronization: *)
(* it is a read and a later write, so that an increment can be lost.  A    *)
(* panic in any goroutine ends the process.  Each worker makes one call.   *)
(* One more goroutine, the closer, calls Close once: its three assignments *)
(* are three steps that interleave with the workers' like any other.       *)
(***************************************************************************)
Closer == 0

InitConc ==
    /\ \E conf \in Configs :
          LET r == initializeFromConfig(NewFakeDNSHolderConfigOnly(conf))
          IN  ~r.err /\ holder = r.holder
    /\ fault = "none"
    /\ last = [NoCall EXCEPT !.op = "Start"]
    /\ issued = [d \in Domains |-> NotIssued]
    /\ accessOrder = << >>
    /\ phase = "Active"
    /\ freed = {}
    /\ pc = [w \in Workers \cup {Closer} |-> "idle"]
    /\ local = [w \in Workers |-> NoLocal]

Ghosts == << last, issued, accessOrder, phase, freed >>

\* The call is made: line 89.
WorkerCall(w, d) ==
    /\ fault = "none" /\ pc[w] = "idle"
    /\ local' = [local EXCEPT ![w].domain = d]
    /\ pc' = [pc EXCEPT ![w] = "get"]
    /\ UNCHANGED << holder, fault, Ghosts >>

\* Lines 90-92: the forward lookup, and the return on a hit.
WorkerGet(w) ==
    /\ fault = "none" /\ pc[w] = "get"
    /\ LET g == Get(holder.domainToIP, local[w].domain)
       IN  IF holder.domainToIP = NilCache \/ (g.ok /\ g.value = NilAddress)
           THEN /\ fault' = "panic"
                /\ UNCHANGED << holder, pc, local >>
           ELSE IF g.ok
           THEN /\ holder' = [holder EXCEPT !.domainToIP = g.cache]
                /\ local' = [local EXCEPT ![w].ret = g.value]
                /\ pc' = [pc EXCEPT ![w] = "done"]
                /\ UNCHANGED fault
           ELSE /\ pc' = [pc EXCEPT ![w] = "cand"]
                /\ UNCHANGED << holder, fault, local >>
    /\ UNCHANGED Ghosts

\* Line 95: the candidate is made of the cursor.
WorkerCandidate(w) ==
    /\ fault = "none" /\ pc[w] = "cand"
    /\ IF holder.nextIP = NilInt
       THEN /\ fault' = "panic"
            /\ UNCHANGED << pc, local >>
       ELSE /\ local' = [local EXCEPT ![w].ip = Candidate(holder.nextIP)]
            /\ pc' = [pc EXCEPT ![w] = "add"]
            /\ UNCHANGED fault
    /\ UNCHANGED << holder, Ghosts >>

\* Line 97, first half: Add reads the cursor.
WorkerAddRead(w) ==
    /\ fault = "none" /\ pc[w] = "add"
    /\ IF holder.nextIP = NilInt
       THEN /\ fault' = "panic"
            /\ UNCHANGED << pc, local >>
       ELSE /\ local' = [local EXCEPT ![w].tmp = holder.nextIP]
            /\ pc' = [pc EXCEPT ![w] = "store"]
            /\ UNCHANGED fault
    /\ UNCHANGED << holder, Ghosts >>

\* Line 97, second half: the sum is stored in the cursor.
WorkerAddStore(w) ==
    /\ fault = "none" /\ pc[w] = "store"
    /\ holder' = [holder EXCEPT !.nextIP = local[w].tmp + 1]
    /\ pc' = [pc EXCEPT ![w] = "wrap"]
    /\ UNCHANGED << fault, local, Ghosts >>

\* Lines 98-100: the cursor is wrapped when it has left the range.
WorkerWrap(w) ==
    /\ fault = "none" /\ pc[w] = "wrap"
    /\ IF holder.nextIP = NilInt \/ holder.ipRange = NilRange
       THEN /\ fault' = "panic"
            /\ UNCHANGED << holder, pc >>
       ELSE /\ holder' = [holder EXCEPT !.nextIP = Wrap(holder.ipRange, holder.nextIP)]
            /\ pc' = [pc EXCEPT ![w] = "lookup"]
            /\ UNCHANGED fault
    /\ UNCHANGED << local, Ghosts >>

\* Lines 103-105: the reverse lookup of the candidate.
WorkerLookup(w) ==
    /\ fault = "none" /\ pc[w] = "lookup"
    /\ IF holder.domainToIP = NilCache
       THEN /\ fault' = "panic"
            /\ UNCHANGED << holder, pc >>
       ELSE LET k == GetKeyFromValue(holder.domainToIP, local[w].ip)
            IN  /\ holder' = [holder EXCEPT !.domainToIP = k.cache]
                /\ pc' = [pc EXCEPT ![w] = IF k.ok THEN "cand" ELSE "put"]
                /\ UNCHANGED fault
    /\ UNCHANGED << local, Ghosts >>

\* Lines 107-108: the mapping is inserted and the address returned.
WorkerPut(w) ==
    /\ fault = "none" /\ pc[w] = "put"
    /\ IF holder.domainToIP = NilCache
       THEN /\ fault' = "panic"
            /\ UNCHANGED << holder, pc, local >>
       ELSE /\ holder' = [holder EXCEPT
                            !.domainToIP = Put(holder.domainToIP, local[w].domain, local[w].ip)]
            /\ local' = [local EXCEPT ![w].ret = local[w].ip]
            /\ pc' = [pc EXCEPT ![w] = "done"]
            /\ UNCHANGED fault
    /\ UNCHANGED Ghosts

\* Close, line 33: the cache is released.
CloseCache ==
    /\ fault = "none" /\ pc[Closer] = "idle"
    /\ holder' = [holder EXCEPT !.domainToIP = NilCache]
    /\ pc' = [pc EXCEPT ![Closer] = "nextIP"]
    /\ UNCHANGED << fault, local, Ghosts >>

\* Close, line 34: the cursor is released.
CloseCursor ==
    /\ fault = "none" /\ pc[Closer] = "nextIP"
    /\ holder' = [holder EXCEPT !.nextIP = NilInt]
    /\ pc' = [pc EXCEPT ![Closer] = "ipRange"]
    /\ UNCHANGED << fault, local, Ghosts >>

\* Close, lines 35-36: the range is released and Close returns.
CloseRange ==
    /\ fault = "none" /\ pc[Closer] = "ipRange"
    /\ holder' = [holder EXCEPT !.ipRange = NilRange]
    /\ pc' = [pc EXCEPT ![Closer] = "done"]
    /\ phase' = "Closed"
    /\ UNCHANGED << fault, local, last, issued, accessOrder, freed >>

NextConc ==
    \/ \E w \in Workers :
          \/ \E d \in Domains : WorkerCall(w, d)
          \/ WorkerGet(w)
          \/ WorkerCandidate(w)
          \/ WorkerAddRead(w)
          \/ WorkerAddStore(w)
          \/ WorkerWrap(w)
          \/ WorkerLookup(w)
          \/ WorkerPut(w)
    \/ CloseCache
    \/ CloseCursor
    \/ CloseRange

SpecConc == InitConc /\ [][NextConc]_vars

(***************************************************************************)
(* What the claims speak of.                                               *)
(***************************************************************************)
LiveList == holder.domainToIP.list
LiveDomains == Keys(holder.domainToIP)

\* The configured pool as numbers: its first address and its size.
CfgSize == 2 ^ (AddrBits - holder.config.IpPool.ones)
CfgBase == (SetBytes(holder.config.IpPool.ip) \div CfgSize) * CfgSize
OutsidePool(a) == SetBytes(a.ip) < CfgBase \/ SetBytes(a.ip) >= CfgBase + CfgSize
PoolAddress(k) == IPAddress(To4(CfgBase + k))

\* C1: on an Active holder no two live domains have the same fake address and
\* no live domain has more than one address, whatever calls were made.
C1_Bijection ==
    Active =>
        \A i, j \in 1 .. Len(LiveList) :
            i # j => /\ LiveList[i].key # LiveList[j].key
                     /\ LiveList[i].value # LiveList[j].value

\* An allocation that evicted a mapping and had to step over a live address.
C1_Witness ==
    /\ Active
    /\ last.op = "GetFakeIP"
    /\ last.evicted # {}
    /\ last.steps > 1
    /\ Len(LiveList) >= 2

\* C5: on an Active holder the number of live mappings is at most the
\* configured capacity.
C5_CapacityBound == Active => Len(LiveList) <= holder.config.LruSize

\* A full cache of two or more mappings right after an eviction.
C5_Witness ==
    /\ Active
    /\ last.op = "GetFakeIP"
    /\ last.evicted # {}
    /\ holder.config.LruSize >= 2
    /\ Len(LiveList) = holder.config.LruSize

\* C6: a call of GetFakeIPForDomain for an unmapped domain on a full cache
\* evicts exactly one mapping, that of the domain whose last forward access
\* is the oldest, and maps the new domain; on a cache that is not full it
\* evicts nothing; a call for a mapped domain changes no mapping.
C6_LruVictim ==
    [][(last'.op = "GetFakeIP" /\ fault' = "none") =>
          LET before == Keys(holder.domainToIP)
              after == Keys(holder'.domainToIP)
              d == last'.domain
          IN  IF d \in before THEN after = before
              ELSE IF Len(LiveList) = holder.config.LruSize
              THEN /\ before \ after = {accessOrder[Len(accessOrder)]}
                   /\ after \ before = {d}
              ELSE after = before \cup {d}]_vars

\* Domain 1 got the first pool address, domain 2 the second; domain 1 was then
\* looked up again, and the allocation for domain 3 evicted domain 2.
C6_Witness ==
    /\ Active
    /\ holder.config.LruSize = 2
    /\ CfgSize = 4
    /\ last.op = "GetFakeIP"
    /\ last.domain = 3
    /\ last.evicted = {2}
    /\ last.addr = PoolAddress(2)
    /\ issued[1] = PoolAddress(0)
    /\ 1 \in LiveDomains

\* C7: on an Active holder GetDomainFromFakeDNS answers "not found" for an
\* address that is not an IP address or lies outside the configured pool,
\* and does not look into the cache for it.
C7_RangeRejection ==
    (/\ last.op = "GetDomain"
     /\ Active
     /\ last.addr # NilAddress
     /\ (~IsIP(last.addr) \/ OutsidePool(last.addr)))
        => fault = "none" /\ last.name = NoDomain /\ ~last.consulted

\* A lookup of an IP address outside the pool while mappings are live.
C7_Witness ==
    /\ last.op = "GetDomain"
    /\ Active
    /\ IsIP(last.addr)
    /\ OutsidePool(last.addr)
    /\ Len(LiveList) >= 1
    /\ last.name = NoDomain

\* C8: Start with a CIDR that parses, of prefix length p, and a capacity
\* c >= 1 succeeds exactly when c < 2^(bits - p).
C8_ConfigRejection ==
    (last.op = "Start" /\ holder.config.IpPool # BadCidr)
        => (~last.err <=> holder.config.LruSize < 2 ^ (AddrBits - holder.config.IpPool.ones))

\* A pool of four addresses with capacity 4 has been rejected.
C8_Witness ==
    /\ last.op = "Start"
    /\ last.err
    /\ holder.config.IpPool # BadCidr
    /\ AddrBits - holder.config.IpPool.ones = 2
    /\ holder.config.LruSize = 4

\* C9: a Start that returns an error leaves every field of the holder as it
\* was before the call.
C9_NoPartialState ==
    [][(last'.op = "Start" /\ last'.err) => holder' = holder]_vars

\* A Start that failed on the capacity check, the holder still uninitialized.
C9_Witness ==
    /\ last.op = "Start"
    /\ last.err
    /\ holder.config.IpPool # BadCidr
    /\ IsNilHolder(holder)

\* C2: when workers run GetFakeIPForDomain concurrently on one holder, no
\* interleaving leaves two live domains with the same fake address, and two
\* calls that have returned for different domains, both still live, have
\* returned different addresses.
C2_AtomicAllocation ==
    /\ \A i, j \in 1 .. Len(LiveList) :
          i # j => LiveList[i].value # LiveList[j].value
    /\ \A v, w \in Workers :
          (/\ pc[v] = "done" /\ pc[w] = "done"
           /\ local[v].domain # local[w].domain
           /\ {local[v].domain, local[w].domain} \subseteq LiveDomains)
              => local[v].ret # local[w].ret

\* C3: GetDomainFromFakeDNS of the address that GetFakeIPForDomain returned for
\* a domain, the mapping not evicted since, returns that domain.
C3_RoundTrip ==
    \A d \in Domains :
        (last.op = "GetDomain" /\ issued[d] # NotIssued /\ last.addr = issued[d])
            => fault = "none" /\ last.name = d

\* C4: a second call of GetFakeIPForDomain for the same domain, right after the
\* first, returns the same address and allocates nothing: the cursor and the
\* set of live domains stay as they are.
C4_Idempotent ==
    [][(/\ last.op = "GetFakeIP" /\ fault = "none"
        /\ last'.op = "GetFakeIP" /\ last'.domain = last.domain)
          => /\ fault' = "none"
             /\ last'.addr = last.addr
             /\ last'.hit
             /\ holder'.nextIP = holder.nextIP
             /\ Keys(holder'.domainToIP) = Keys(holder.domainToIP)]_vars

\* C10: a call of GetFakeIPForDomain for an unmapped domain on an Active holder
\* returns, having examined at most as many candidates as the pool has addresses.
C10_AllocationTerminates ==
    (last.op = "GetFakeIP" /\ ~last.hit /\ Active)
        => fault # "hang" /\ last.steps <= CfgSize

\* The last address of the configured pool, and the live addresses.
CfgTop == CfgBase + CfgSize - 1
LiveAddresses == Values(holder.domainToIP)

\* The first pool address, going up from n and around past the top, that no
\* live domain holds.
FirstFreeFrom(n) ==
    LET at(j) == (n - CfgBase + j) % CfgSize
        k == Min({j \in 0 .. CfgSize : PoolAddress(at(j)) \notin LiveAddresses})
    IN  PoolAddress(at(k))

\* C11: when the cursor is at the last address of the pool, an allocation for
\* an unmapped domain returns that address (the first free one after it when
\* it is live) and, the last address taken, leaves the cursor at the pool's
\* base; the allocation after one that returned the last address returns the
\* first free address from the base up; neither returns an address outside
\* the pool.
C11_Wraparound ==
    [][(/\ Active /\ fault = "none"
        /\ last'.op = "GetFakeIP" /\ last'.domain \notin LiveDomains)
          => /\ holder.nextIP = CfgTop
                  => /\ fault' = "none"
                     /\ last'.addr = FirstFreeFrom(CfgTop)
                     /\ (PoolAddress(CfgSize - 1) \notin LiveAddresses
                            => holder'.nextIP = CfgBase)
             /\ (last.op = "GetFakeIP" /\ ~last.hit /\ last.addr = PoolAddress(CfgSize - 1))
                  => /\ fault' = "none"
                     /\ last'.addr = FirstFreeFrom(CfgBase)]_vars

\* C12, as stated: on a Closed holder every call of GetFakeIPForDomain and of
\* GetDomainFromFakeDNS fails (panics) and returns neither an address nor a
\* domain.
C12_ClosedFailsFast_AsStated ==
    (phase = "Closed" /\ last.op \in {"GetFakeIP", "GetDomain"})
        => fault = "panic" /\ last.name = NoDomain

\* C12: on a Closed holder GetFakeIPForDomain panics, GetDomainFromFakeDNS
\* panics for an IP address and for the nil address and answers "not found",
\* without failing, for an address that is not an IP address; no call
\* returns an address or a domain.
C12_ClosedFailsFast ==
    /\ (phase = "Closed" /\ last.op = "GetFakeIP")
          => fault = "panic" /\ last.addr = NilAddress
    /\ (phase = "Closed" /\ last.op = "GetDomain")
          => /\ last.name = NoDomain
             /\ ~last.consulted
             /\ fault = (IF last.addr = DomainAddress THEN "none" ELSE "panic")

\* A holder of a configuration that Start accepts has been closed and then
\* asked for a fake address.
C12_Witness ==
    /\ phase = "Closed"
    /\ last.op = "GetFakeIP"
    /\ fault = "panic"
    /\ IsNilHolder(holder)
    /\ holder.config.IpPool # BadCidr
    /\ holder.config.LruSize < CfgSize

\* A worker is inside GetFakeIPForDomain.
InFlight(w) == pc[w] \notin {"idle", "done"}

\* C13: under any interleaving of Close with calls of GetFakeIPForDomain, no
\* call is in flight once Close has released a field of the holder (none was
\* in flight when it did, none began after), and a call in flight never has
\* before it a holder with some of cache, cursor and range released and the
\* others not.
C13_CloseBarrier ==
    /\ pc[Closer] # "idle" => \A w \in Workers : ~InFlight(w)
    /\ \A w \in Workers : InFlight(w) => (Active \/ IsNilHolder(holder))

\* The address written in the configured CIDR, as a number.
CfgStart == SetBytes(holder.config.IpPool.ip)

C15_CursorInvariant ==
    (Active /\ fault = "none")
        => /\ IsIP(Candidate(holder.nextIP))
           /\ ~OutsidePool(Candidate(holder.nextIP))
           /\ Contains(holder.ipRange, Bytes(holder.nextIP))

\* C16: on an Active holder, GetDomainFromFakeDNS of the former address of an
\* evicted mapping, not returned again since, answers "not found"; and an
\* allocation for an unmapped domain that finds the cursor at such an address
\* takes it at once.
C16_NoDanglingReverse ==
    [][/\ (Active /\ last'.op = "GetDomain" /\ last'.addr \in freed)
             => fault' = "none" /\ last'.name = NoDomain
       /\ (/\ Active /\ fault = "none"
           /\ last'.op = "GetFakeIP" /\ last'.domain \notin LiveDomains
           /\ Candidate(holder.nextIP) \in freed)
             => /\ fault' = "none"
                /\ last'.addr = Candidate(holder.nextIP)
                /\ last'.steps = 1]_vars

\* The cursor has come round to the address of an evicted mapping and an
\* allocation has taken it, while another evicted address is still free.
C16_Witness ==
    /\ Active
    /\ last.op = "GetFakeIP" /\ ~last.hit
    /\ last.steps = 1
    /\ last.addr = PoolAddress(0)
    /\ last.evicted # {}
    /\ PoolAddress(0) \notin freed
    /\ PoolAddress(1) \in freed
    /\ holder.nextIP = CfgBase + 1

\* C17: a call of GetDomainFromFakeDNS, whether it finds a domain, finds none
\* or rejects the address, leaves the holder as it was: the live mappings,
\* their recency order (and so the next mapping to be evicted) and the cursor.
C17_ReverseLookupReadOnly ==
    [][last'.op = "GetDomain"
          => /\ holder'.domainToIP = holder.domainToIP
             /\ holder'.nextIP = holder.nextIP
             /\ holder'.ipRange = holder.ipRange]_vars

\* A reverse lookup has found the domain of the least recently used of two
\* or more live mappings, and that mapping is still the least recently used.
C17_Witness ==
    /\ Active
    /\ last.op = "GetDomain"
    /\ last.consulted
    /\ last.name # NoDomain
    /\ Len(LiveList) >= 2
    /\ LiveList[Len(LiveList)].key = last.name
    /\ accessOrder[Len(accessOrder)] = last.name

\* C18: an address that GetFakeIPForDomain returns on an Active holder is an
\* IPv4 address of the configured pool, and GetDomainFromFakeDNS of an
\* address issued and still live passes the range check.
C18_IssuedInPool ==
    /\ (last.op = "GetFakeIP" /\ Active /\ fault = "none")
          => /\ IsIP(last.addr)
             /\ Contains(holder.ipRange, last.addr.ip)
             /\ ~OutsidePool(last.addr)
    /\ (last.op = "GetDomain" /\ Active /\ \E d \in Domains : issued[d] = last.addr)
          => fault = "none" /\ last.consulted

C20_SameDomainConcurrent ==
    \A v, w \in Workers :
        (/\ v # w
         /\ pc[v] = "done" /\ pc[w] = "done"
         /\ local[v].domain = local[w].domain
         /\ pc[Closer] = "idle" /\ fault = "none")
            => /\ local[v].ret = local[w].ret
               /\ GetKeyFromValue(holder.domainToIP, local[v].ret).ok
               /\ GetKeyFromValue(holder.domainToIP, local[v].ret).key = local[v].domain
               /\ Cardinality(KeyIndex(holder.domainToIP, local[v].domain)) = 1

====
